---- MODULE Spec2Model ----
(***************************************************************************)
(* QuakeProof client (src/frontend/next.config.ts, the App component) and  *)
(* the shared store it talks to.  One client is modelled, with the launch  *)
(* parameter chosen at Init; the peer device appears as writes to the      *)
(* store.                                                                  *)
(*                                                                         *)
(* React semantics that the model keeps:                                   *)
(*  - a useState value is a constant of the render that read it; a         *)
(*    function defined in a render (processFrame, sync) sees the values of *)
(*    that render for ever (its closure);                                  *)
(*  - an effect with a dependency list runs again only when a dependency   *)
(*    changed (Object.is), and then captures the functions of that render; *)
(*  - a ref (webcamRef, magRef) is one mutable cell shared by all renders. *)
(***************************************************************************)
EXTENDS Naturals, Integers, Sequences, FiniteSets, Bags, TLC

\* ------------------------------------------------------------------ bounds

\* pending processFrame timers plus active cycles of the client
MaxTasks == 3
\* state polls of the client in flight
MaxPolls == 1
\* update_magnitude requests of the client in flight
MaxUpdates == 1
\* reconstruction runs of the client in progress
MaxRuns == 2
\* polls, and update_magnitude requests, of a client that overlap
MaxOverlap == 2

\* ------------------------------------------------------------- JS values

\* A JavaScript number, in tenths (the slider step is 0.1).
Num(v) == [t |-> "number", v |-> v]
\* A JavaScript string holding a decimal numeral, in tenths ("9" is Str(90)).
Str(v) == [t |-> "string", v |-> v]

\* the values e.target.value of the range input takes (strings), a sample
\* of min=0 .. max=9
SliderVals == {Str(0), Str(90)}
\* three rising values of the slider
RampVals == {Str(30), Str(60), Str(90)}

\* a detections value of a response: an array of Detection, or absent/null
NoDetections == [t |-> "null", v |-> << >>]
Arr(s) == [t |-> "array", v |-> s]
Det1 == [id |-> 1, risk |-> 80]
Det2 == [id |-> 2, risk |-> 20]
DetLists == {Arr(<<Det1>>), Arr(<<Det2>>)}

\* JavaScript truthiness of a detections value: every array is truthy
Truthy(d) == d.t # "null"

\* no state poll has been answered yet
NoPoll == [magnitude |-> [t |-> "none", v |-> 0], detections |-> NoDetections]

\* the values of the launch parameter ?mode=...; NoParam is its absence
NoParam == "(none)"
Params == {NoParam, "phone", "sensor", "controller"}

\* the status line: a fixed text, "Reconstruction Complete: n Hazards
\* Found." or "Error: " followed by the message of the Error caught
StatusLine(kind, text, n) == [kind |-> kind, text |-> text, n |-> n]
StatusText(text) == StatusLine("text", text, 0)
StatusComplete(n) == StatusLine("complete", "Reconstruction Complete", n)
StatusError(msg) == StatusLine("error", msg, 0)

\* The floor's translation: x and z (y is always 0), and whether
\* setNextKinematicTranslation has been called on the body. Lengths are in
\* units of 1 / (2 * 10 * 90^3) m: sines in halves, amplitudes in
\* 1 / (10 * 90^3).
Position(x, z, driven) == [x |-> x, z |-> z, driven |-> driven]

\* ------------------------------------------------------------------ state

VARIABLES
    param,          \* the launch parameter of the page
    unmounted,      \* the page component has been unmounted
    unhandled,      \* a promise of the page was rejected with no handler
    mounted,        \* the mount effects have run
    mode,           \* useState("laptop")
    webcamRef,      \* webcamRef.current is set (the Webcam is rendered)
    magnitude,      \* useState(0.0)
    magRef,         \* magRef.current
    detections,     \* useState([])
    floor,          \* the translation of the floor's rigid body in Room
    sim,            \* the standalone simulator page: its magnitude, and
                    \* whether it shows a room (detectedObjects.length > 0)
    isProcessing,   \* useState(false), the latest value
    ivLock,         \* isProcessing as seen by the processFrame the 500 ms
                    \* interval calls (the render of the last magnitude change)
    timers,         \* bag of pending setTimeout(processFrame, d) callbacks
    cycles,         \* bag of processFrame cycles past their lock acquisition
    lastSent,       \* history: the magnitude in the body of the last detect
                    \* request
    polls,          \* bag of sync() calls in flight
    updates,        \* bag of update_magnitude requests in flight
    store,          \* the SharedState of the backend
    lastPolled,     \* history: the magnitude the last poll a sensor completed carried
    detectedObjects,\* useState([]), the RoomObject list
    status,         \* useState("Waiting for video upload...")
    loading,        \* useState(false)
    previewImage,   \* useState(null): a preview frame is kept
    runs,           \* bag of analyzeVideo runs in progress
    newest          \* history: where the run started last is ("none" before
                    \* the first run; "ok" or "failed" once it has ended)

clientVars ==
    <<param, unmounted, unhandled, mounted, mode, webcamRef, magnitude, magRef,
      detections, floor, sim>>
loopVars == <<isProcessing, ivLock, timers, cycles, lastSent>>
syncVars == <<polls, updates, store, lastPolled>>
reconVars == <<detectedObjects, status, loading, previewImage, runs, newest>>
vars == <<clientVars, loopVars, syncVars, reconVars>>

One(e) == SetToBag({e})
TaskCount == BagCardinality(timers) + BagCardinality(cycles)

\* a pending setTimeout(processFrame, delay) of the processFrame that saw
\* isProcessing = lock
Timer(lock, delay) == [lock |-> lock, delay |-> delay]
\* a cycle after setIsProcessing(true): waiting for the detect response
\* ("fetch") or sleeping the 429 cooldown ("cooldown")
Cycle(pc) == [pc |-> pc]

InFlight == CopiesIn(Cycle("fetch"), cycles)

\* parseFloat of a magnitude: the number a numeral string holds
ParseFloat(m) == Num(m.v)
\* the body of a detect request: JSON.stringify({image, magnitude: m})
Sent(m) == [sent |-> TRUE, magnitude |-> m]
NothingSent == [sent |-> FALSE, magnitude |-> Num(0)]

\* ------------------------------------------------------------------- Init

InitWith(P) ==
    /\ param \in P
    /\ unmounted = FALSE
    /\ unhandled = FALSE
    /\ mounted = FALSE
    /\ mode = "laptop"
    /\ webcamRef = FALSE
    /\ magnitude = Num(0)
    /\ magRef = Num(0)
    /\ detections = Arr(<< >>)
    /\ floor = Position(0, 0, FALSE)
    /\ sim = [magnitude |-> Num(0), room |-> FALSE]
    /\ isProcessing = FALSE
    /\ ivLock = FALSE
    /\ timers = EmptyBag
    /\ cycles = EmptyBag
    /\ lastSent = NothingSent
    /\ polls = EmptyBag
    /\ updates = EmptyBag
    /\ store = [magnitude |-> Num(0), detections |-> NoDetections]
    /\ lastPolled = NoPoll.magnitude
    /\ detectedObjects = << >>
    /\ status = StatusText("Waiting for video upload...")
    /\ loading = FALSE
    /\ previewImage = FALSE
    /\ runs = EmptyBag
    /\ newest = "none"

Init == InitWith(Params)

\* the two roles: a client launched with mode=phone and one launched without
\* a parameter
Roles == {"phone", NoParam}

\* --------------------------------------------------------- inference loop

\* mutant: the effect that copies the magnitude into magRef is lost
SetMagnitude_KeepsRef(v) ==
    IF v = magnitude
    THEN UNCHANGED <<magnitude, magRef, ivLock>>
    ELSE /\ magnitude' = v
         /\ magRef' = magRef
         /\ ivLock' = isProcessing

\* setMagnitude(v) and the effects that depend on [magnitude]: magRef is
\* refreshed and the 500 ms interval is re-created with the processFrame of
\* this render, which sees the isProcessing of this render.  Setting the
\* value the state already holds does not render.
SetMagnitude(v) ==
    IF v = magnitude
    THEN UNCHANGED <<magnitude, magRef, ivLock>>
    ELSE /\ magnitude' = v
         /\ magRef' = v
         /\ ivLock' = isProcessing

\* mutant: the lock is taken before the capture source is looked at
ProcessFrame_LocksBeforeReady(lock, T) ==
    IF ~webcamRef
    THEN /\ isProcessing' = TRUE
         /\ timers' = T (+) One(Timer(lock, 500))
         /\ UNCHANGED <<cycles, lastSent>>
    ELSE IF lock
    THEN /\ timers' = T
         /\ UNCHANGED <<isProcessing, cycles, lastSent>>
    ELSE \E image \in BOOLEAN :
         IF image
         THEN /\ isProcessing' = TRUE
              /\ cycles' = cycles (+) One(Cycle("fetch"))
              /\ lastSent' = Sent(ParseFloat(magRef))
              /\ timers' = T
         ELSE /\ isProcessing' = FALSE
              /\ timers' = T (+) One(Timer(lock, 300))
              /\ UNCHANGED <<cycles, lastSent>>

\* One call of the processFrame that saw isProcessing = lock, with T the
\* pending timers left once the caller is accounted for.
ProcessFrame(lock, T) ==
    IF ~webcamRef
    THEN \* readiness wait
         /\ timers' = T (+) One(Timer(lock, 500))
         /\ UNCHANGED <<isProcessing, cycles, lastSent>>
    ELSE IF lock
    THEN \* if (isProcessing) return
         /\ timers' = T
         /\ UNCHANGED <<isProcessing, cycles, lastSent>>
    ELSE \E image \in BOOLEAN :
         IF image
         THEN \* setIsProcessing(true); fetch(analyze) is sent
              /\ isProcessing' = TRUE
              /\ cycles' = cycles (+) One(Cycle("fetch"))
              /\ lastSent' = Sent(ParseFloat(magRef))
              /\ timers' = T
         ELSE \* getScreenshot() gave null: straight to finally
              /\ isProcessing' = FALSE
              /\ timers' = T (+) One(Timer(lock, 300))
              /\ UNCHANGED <<cycles, lastSent>>

\* mutant: the finally block schedules nothing
Finally_NoRearm(c) ==
    /\ isProcessing' = FALSE
    /\ cycles' = cycles (-) One(c)
    /\ timers' = timers

\* mutant: the finally block leaves the lock set
Finally_KeepsLock(c) ==
    /\ isProcessing' = isProcessing
    /\ cycles' = cycles (-) One(c)
    /\ timers' = timers (+) One(Timer(FALSE, 300))

\* the finally block of a cycle c
Finally(c) ==
    /\ isProcessing' = FALSE
    /\ cycles' = cycles (-) One(c)
    /\ timers' = timers (+) One(Timer(FALSE, 300))

\* mutant: the Webcam is rendered in every mode
Mount_AlwaysWebcam ==
    /\ ~mounted
    /\ mounted' = TRUE
    /\ mode' = IF param = NoParam THEN "laptop" ELSE param
    /\ webcamRef' = TRUE
    /\ ProcessFrame(isProcessing, timers)
    /\ UNCHANGED <<param, unmounted, unhandled, floor, sim, magnitude, magRef, detections, ivLock>>
    /\ UNCHANGED <<syncVars, reconVars>>

\* mutant: the mount effect does not set the mode
Mount_KeepsLaptop ==
    /\ ~mounted
    /\ mounted' = TRUE
    /\ mode' = mode
    /\ webcamRef' = (mode' = "phone")
    /\ ProcessFrame(isProcessing, timers)
    /\ UNCHANGED <<param, unmounted, unhandled, floor, sim, magnitude, magRef, detections, ivLock>>
    /\ UNCHANGED <<syncVars, reconVars>>

\* The mount effects of the first render (mode is still "laptop", no Webcam):
\* setMode(param || "laptop"), processFrame(), the two intervals.  The render
\* that follows attaches the Webcam in phone mode.
Mount ==
    /\ ~mounted
    /\ mounted' = TRUE
    /\ mode' = IF param = NoParam THEN "laptop" ELSE param
    /\ webcamRef' = (mode' = "phone")
    /\ ProcessFrame(isProcessing, timers)
    /\ UNCHANGED <<param, unmounted, unhandled, floor, sim, magnitude, magRef, detections, ivLock>>
    /\ UNCHANGED <<syncVars, reconVars>>

\* a pending setTimeout(processFrame, d) fires
TimerFire(t) ==
    /\ BagIn(t, timers)
    /\ ProcessFrame(t.lock, timers (-) One(t))
    /\ UNCHANGED <<clientVars, ivLock, syncVars, reconVars>>

\* the 500 ms setInterval(processFrame, 500) fires
IntervalTick ==
    /\ mounted /\ ~unmounted
    /\ TaskCount < MaxTasks \/ (webcamRef /\ ivLock)
    /\ ProcessFrame(ivLock, timers)
    /\ UNCHANGED <<clientVars, ivLock, syncVars, reconVars>>

\* the outcomes of the detect request
Outcomes == {"ok", "429", "other", "failed"}

\* mutant: a 2xx response adds its detections to the ones shown
DetectReturn_Merges(outcome, dets) ==
    /\ BagIn(Cycle("fetch"), cycles)
    /\ CASE outcome = "429" ->
              /\ cycles' = (cycles (-) One(Cycle("fetch"))) (+) One(Cycle("cooldown"))
              /\ UNCHANGED <<detections, isProcessing, timers, store>>
         [] outcome = "ok" ->
              /\ detections' = Arr(detections.v \o dets.v)
              /\ store' = [store EXCEPT !.detections = dets]
              /\ Finally(Cycle("fetch"))
         [] OTHER ->
              /\ Finally(Cycle("fetch"))
              /\ UNCHANGED <<detections, store>>
    /\ UNCHANGED <<param, unmounted, unhandled, floor, sim, mounted, mode, webcamRef, magnitude, magRef, ivLock, lastSent>>
    /\ UNCHANGED <<polls, updates, lastPolled, reconVars>>

\* The detect request of a cycle completes.  On a 2xx the backend has stored
\* the detections it returns.
DetectReturn(outcome, dets) ==
    /\ BagIn(Cycle("fetch"), cycles)
    /\ CASE outcome = "429" ->
              /\ cycles' = (cycles (-) One(Cycle("fetch"))) (+) One(Cycle("cooldown"))
              /\ UNCHANGED <<detections, isProcessing, timers, store>>
         [] outcome = "ok" ->
              /\ detections' = dets
              /\ store' = [store EXCEPT !.detections = dets]
              /\ Finally(Cycle("fetch"))
         [] OTHER ->
              /\ Finally(Cycle("fetch"))
              /\ UNCHANGED <<detections, store>>
    /\ UNCHANGED <<param, unmounted, unhandled, floor, sim, mounted, mode, webcamRef, magnitude, magRef, ivLock, lastSent>>
    /\ UNCHANGED <<polls, updates, lastPolled, reconVars>>

\* the 2 s sleep after a 429 is over
CooldownElapsed ==
    /\ BagIn(Cycle("cooldown"), cycles)
    /\ Finally(Cycle("cooldown"))
    /\ UNCHANGED <<clientVars, ivLock, lastSent, syncVars, reconVars>>

\* ------------------------------------------------------ state synchronizer

\* a sync() call of the sync that saw mode = m: its GET is on the way
\* ("req") or the backend has answered with the state s ("resp")
Poll(m, pc, s) == [mode |-> m, pc |-> pc, state |-> s]

\* mutant: the poll is a one-shot timer and not an interval
SyncTick_Once ==
    /\ mounted /\ ~unmounted
    /\ lastPolled.t = "none"
    /\ BagCardinality(polls) < MaxPolls
    /\ polls' = polls (+) One(Poll(mode, "req", NoPoll))
    /\ UNCHANGED <<clientVars, loopVars, updates, store, lastPolled, reconVars>>

\* setInterval(sync, 500) fires: fetch(state) is sent.  The interval is
\* created by the effect on [mode], so sync sees the current mode.
SyncTickUpTo(n) ==
    /\ mounted /\ ~unmounted
    /\ BagCardinality(polls) < n
    /\ polls' = polls (+) One(Poll(mode, "req", NoPoll))
    /\ UNCHANGED <<clientVars, loopVars, updates, store, lastPolled, reconVars>>

\* the tick of a client whose polls do not overlap
SyncTick == SyncTickUpTo(MaxPolls)

\* the backend answers a GET state with the SharedState it holds
SyncServe(p) ==
    /\ BagIn(p, polls)
    /\ p.pc = "req"
    /\ polls' = (polls (-) One(p)) (+) One(Poll(p.mode, "resp", store))
    /\ UNCHANGED <<clientVars, loopVars, updates, store, lastPolled, reconVars>>

\* mutant: the role test on the magnitude is lost
SyncApply_MagnitudeInEveryRole(p) ==
    /\ SetMagnitude(p.state.magnitude)
    /\ IF p.mode # "phone" /\ Truthy(p.state.detections)
       THEN detections' = p.state.detections
       ELSE UNCHANGED detections
    /\ UNCHANGED <<updates, store>>

\* mutant: the sensor branch is lost
SyncApply_DetectionsOnly(p) ==
    /\ UNCHANGED <<magnitude, magRef, ivLock>>
    /\ IF p.mode # "phone" /\ Truthy(p.state.detections)
       THEN detections' = p.state.detections
       ELSE UNCHANGED detections
    /\ UNCHANGED <<updates, store>>

\* mutant: the poll writes the local magnitude back to the store
SyncApply_WritesBack(p) ==
    /\ IF p.mode = "phone"
       THEN SetMagnitude(p.state.magnitude)
       ELSE UNCHANGED <<magnitude, magRef, ivLock>>
    /\ IF p.mode # "phone" /\ Truthy(p.state.detections)
       THEN detections' = p.state.detections
       ELSE UNCHANGED detections
    /\ updates' = updates (+) One(magnitude)
    /\ UNCHANGED store

\* mutant: the role test on the detections is lost
SyncApply_DetectionsInEveryRole(p) ==
    /\ IF p.mode = "phone"
       THEN SetMagnitude(p.state.magnitude)
       ELSE UNCHANGED <<magnitude, magRef, ivLock>>
    /\ IF Truthy(p.state.detections)
       THEN detections' = p.state.detections
       ELSE UNCHANGED detections
    /\ UNCHANGED <<updates, store>>

\* the rest of sync() once the response of poll p is there
SyncApply(p) ==
    /\ IF p.mode = "phone"
       THEN SetMagnitude(p.state.magnitude)
       ELSE UNCHANGED <<magnitude, magRef, ivLock>>
    /\ IF p.mode # "phone" /\ Truthy(p.state.detections)
       THEN detections' = p.state.detections
       ELSE UNCHANGED detections
    /\ UNCHANGED <<updates, store>>

SyncReturn(p) ==
    /\ BagIn(p, polls)
    /\ p.pc = "resp"
    /\ polls' = polls (-) One(p)
    /\ lastPolled' = IF p.mode = "phone" THEN p.state.magnitude ELSE lastPolled
    /\ SyncApply(p)
    /\ UNCHANGED <<param, unmounted, unhandled, floor, sim, mounted, mode, webcamRef>>
    /\ UNCHANGED <<isProcessing, timers, cycles, lastSent, reconVars>>

\* fetch(state) or res.json() of poll p rejects (the network fails, the body
\* is no JSON): sync() has no try, so the promise it returned is rejected
\* and nothing handles it; the rest of sync() is not run
SyncFail(p) ==
    /\ BagIn(p, polls)
    /\ polls' = polls (-) One(p)
    /\ unhandled' = TRUE
    /\ UNCHANGED <<param, unmounted, mounted, mode, webcamRef, magnitude, magRef,
                   detections, floor, sim>>
    /\ UNCHANGED <<loopVars, updates, store, lastPolled, reconVars>>

\* The page is unmounted: the cleanups of the effects clear the two
\* intervals (processFrame's and sync's) and React detaches the refs.  The
\* setTimeout(processFrame, d) callbacks have no cleanup, and the requests
\* in flight go on.
Unmount ==
    /\ mounted /\ ~unmounted
    /\ unmounted' = TRUE
    /\ webcamRef' = FALSE
    /\ UNCHANGED <<param, unhandled, mounted, mode, magnitude, magRef,
                   detections, floor, sim>>
    /\ UNCHANGED <<loopVars, syncVars, reconVars>>

\* the magnitude controls are rendered: the laptop page, with a room
ControlsShown == ~unmounted /\ mode # "phone" /\ Len(detectedObjects) > 0

\* onChange of the range input: the user moved the slider to val
SliderChangeUpTo(n, val) ==
    /\ ControlsShown
    /\ val.v # magnitude.v
    /\ BagCardinality(updates) < n
    /\ SetMagnitude(val)
    /\ updates' = updates (+) One(val)
    /\ UNCHANGED <<param, unmounted, unhandled, floor, sim, mounted, mode, webcamRef, detections>>
    /\ UNCHANGED <<isProcessing, timers, cycles, lastSent, polls, store, lastPolled, reconVars>>

\* the slider moved once the update of the last move has arrived
SliderChange(val) == SliderChangeUpTo(MaxUpdates, val)

\* onClick of STOP SIMULATION
StopSimulation ==
    /\ ControlsShown
    /\ SetMagnitude(Num(0))
    /\ UNCHANGED <<param, unmounted, unhandled, floor, sim, mounted, mode, webcamRef, detections>>
    /\ UNCHANGED <<isProcessing, timers, cycles, lastSent, syncVars, reconVars>>

\* an update_magnitude request of this client reaches the backend, which
\* keeps the JSON value as it came (the slider sends a string)
UpdateArrive(val) ==
    /\ BagIn(val, updates)
    /\ updates' = updates (-) One(val)
    /\ store' = [store EXCEPT !.magnitude = val]
    /\ UNCHANGED <<clientVars, loopVars, polls, lastPolled, reconVars>>

\* the controller of the peer device writes the magnitude
PeerUpdate(val) ==
    /\ val # store.magnitude
    /\ store' = [store EXCEPT !.magnitude = val]
    /\ UNCHANGED <<clientVars, loopVars, polls, updates, lastPolled, reconVars>>

\* the controller of the peer device raises the magnitude
PeerRaise(val) ==
    /\ val.v > store.magnitude.v
    /\ PeerUpdate(val)

\* the sensor of the peer device had a detect request answered
PeerDetect(dets) ==
    /\ store' = [store EXCEPT !.detections = dets]
    /\ dets # store.detections
    /\ UNCHANGED <<clientVars, loopVars, polls, updates, lastPolled, reconVars>>

\* ------------------------------------------------- the standalone simulator

\* its slider: min 0, max 9.5, step 0.1 (in tenths); parseFloat of the
\* value gives a number
SimSliderMax == 95
SimSliderVals == {Num(0), Num(SimSliderMax)}

\* a run of its analyzeVideo found objects: the controls are rendered
SimReconstructed ==
    /\ ~sim.room
    /\ sim' = [sim EXCEPT !.room = TRUE]
    /\ UNCHANGED <<param, unmounted, unhandled, mounted, mode, webcamRef, magnitude, magRef, detections, floor>>
    /\ UNCHANGED <<loopVars, syncVars, reconVars>>

\* onChange of its range input
SimSliderChange(val) ==
    /\ sim.room
    /\ val # sim.magnitude
    /\ sim' = [sim EXCEPT !.magnitude = val]
    /\ UNCHANGED <<param, unmounted, unhandled, mounted, mode, webcamRef, magnitude, magRef, detections, floor>>
    /\ UNCHANGED <<loopVars, syncVars, reconVars>>

\* onClick of its STOP SIMULATION
SimStop ==
    /\ sim.room
    /\ sim' = [sim EXCEPT !.magnitude = Num(0)]
    /\ UNCHANGED <<param, unmounted, unhandled, mounted, mode, webcamRef, magnitude, magRef, detections, floor>>
    /\ UNCHANGED <<loopVars, syncVars, reconVars>>

\* -------------------------------------------------------- the shaking floor

\* the ticks of the frame clock that are looked at, in tenths of a second
MaxClock == 6
Clock == 0..MaxClock

\* 2 * Math.sin(a) rounded to the nearest integer, a in hundredths of a
\* radian (a >= 0)
Sin(a) ==
    LET p == a % 628
    IN  CASE p < 25 -> 0
          [] p < 85 -> 1
          [] p < 229 -> 2
          [] p < 289 -> 1
          [] p < 339 -> 0
          [] p < 399 -> 0 - 1
          [] p < 544 -> 0 - 2
          [] p < 603 -> 0 - 1
          [] OTHER -> 0
Cos(a) == Sin(a + 157)

\* mutant: the frequency does not depend on the magnitude
Freq_Constant(m) == 100

\* freq = 10 + magnitude * 2, in tenths of a radian per second; a string
\* magnitude converts to its number
Freq(m) == 100 + m.v * 2

\* mutant: the amplitude is 0.3 at every magnitude
Amp_Full(m) == 3 * 90 * 90 * 90

\* amp = Math.pow(magnitude / 9, 3) * 0.3, in units of 1 / (10 * 90^3)
Amp(m) == 3 * m.v * m.v * m.v

\* the translation the motion generator gives at time t for magnitude m
Displacement(t, m) ==
    Position(Sin(t * Freq(m)) * Amp(m),
             Cos((t * Freq(m) * 11) \div 10) * Amp(m), TRUE)

\* magnitude === 0: only the number 0, not the string "0"
IsZero(m) == m.t = "number" /\ m.v = 0

\* the Room is rendered, with its rigid body, outside the phone page
RoomShown == mounted /\ ~unmounted /\ mode # "phone"

\* the useFrame callback of Room at clock time t
Frame(t) ==
    /\ RoomShown
    /\ floor' = IF IsZero(magnitude) THEN floor ELSE Displacement(t, magnitude)
    /\ UNCHANGED <<param, unmounted, unhandled, sim, mounted, mode, webcamRef, magnitude, magRef, detections>>
    /\ UNCHANGED <<loopVars, syncVars, reconVars>>

\* ------------------------------------------- spatial reconstruction: data

\* A text is a sequence of tokens: punctuation, a JSON number or string
\* literal, the literal null, or a word of free text.
Tok(k, v) == [k |-> k, v |-> v]
LB == Tok("punct", "[")
RB == Tok("punct", "]")
LC == Tok("punct", "{")
RC == Tok("punct", "}")
Comma == Tok("punct", ",")
Colon == Tok("punct", ":")
NumTok(s) == Tok("num", s)
StrTok(s) == Tok("str", s)
NullTok == Tok("null", "null")
Word(s) == Tok("word", s)

\* the number a numeral denotes, in thousandths
NumeralValue(s) ==
    CASE s = "0" -> 0
      [] s = "0.3" -> 300
      [] s = "0.5" -> 500
      [] s = "1" -> 1000
      [] s = "2" -> 2000
      [] s = "-4" -> 0 - 4000
      [] s = "13" -> 13000
      [] OTHER -> 0
Numerals == {"0", "0.3", "0.5", "1", "2", "-4", "13"}

\* A JavaScript value: t is its type tag and one of n (a number, in
\* thousandths), s (a string), a (an array) or o (an object, a function from
\* its keys) holds it.
JV(t, n, s, a, o) == [t |-> t, n |-> n, s |-> s, a |-> a, o |-> o]
JNum(n) == JV("number", n, "", << >>, << >>)
JStr(s) == JV("string", 0, s, << >>, << >>)
JArr(a) == JV("array", 0, "", a, << >>)
JObj(o) == JV("object", 0, "", << >>, o)
JNull == JV("null", 0, "", << >>, << >>)
JUndefined == JV("undefined", 0, "", << >>, << >>)
JNaN == JV("NaN", 0, "", << >>, << >>)

\* o with key k set to v
With(o, k, v) == [x \in DOMAIN o \cup {k} |-> IF x = k THEN v ELSE o[x]]
\* obj[k] of a JavaScript object value
Get(obj, k) == IF k \in DOMAIN obj.o THEN obj.o[k] ELSE JUndefined

\* text.match(/\[.*\]/s): from the first "[" to the last "]" after it, or
\* no match (the empty sequence; a match is never empty)
Positions(text, tok) == {i \in 1..Len(text) : text[i] = tok}
Min(S) == CHOOSE x \in S : \A y \in S : x <= y
Max(S) == CHOOSE x \in S : \A y \in S : x >= y
\* mutant: the whole text is taken for the array
Match_WholeText(text) == text

Match(text) ==
    LET opens == Positions(text, LB)
        closes == IF opens = {} THEN {}
                  ELSE {i \in Positions(text, RB) : i > Min(opens)}
    IN  IF closes = {} THEN << >>
        ELSE SubSeq(text, Min(opens), Max(closes))

\* JSON.parse of a token sequence: a parse result is the value and the
\* position after it, or a SyntaxError
ParseError == [ok |-> FALSE, v |-> JNull, next |-> 0]
Parsed(v, next) == [ok |-> TRUE, v |-> v, next |-> next]

RECURSIVE ParseValue(_, _), ParseElements(_, _, _), ParseMembers(_, _, _)
ParseValue(toks, i) ==
    IF i > Len(toks) THEN ParseError
    ELSE LET tk == toks[i]
         IN  CASE tk.k = "num" -> Parsed(JNum(NumeralValue(tk.v)), i + 1)
               [] tk.k = "str" -> Parsed(JStr(tk.v), i + 1)
               [] tk.k = "null" -> Parsed(JNull, i + 1)
               [] tk = LB ->
                    IF i < Len(toks) /\ toks[i + 1] = RB
                    THEN Parsed(JArr(<< >>), i + 2)
                    ELSE ParseElements(toks, i + 1, << >>)
               [] tk = LC ->
                    IF i < Len(toks) /\ toks[i + 1] = RC
                    THEN Parsed(JObj(<< >>), i + 2)
                    ELSE ParseMembers(toks, i + 1, << >>)
               [] OTHER -> ParseError
ParseElements(toks, i, acc) ==
    LET e == ParseValue(toks, i)
    IN  IF ~e.ok \/ e.next > Len(toks) THEN ParseError
        ELSE IF toks[e.next] = Comma
             THEN ParseElements(toks, e.next + 1, Append(acc, e.v))
        ELSE IF toks[e.next] = RB
             THEN Parsed(JArr(Append(acc, e.v)), e.next + 1)
        ELSE ParseError
ParseMembers(toks, i, acc) ==
    IF i + 1 > Len(toks) \/ toks[i].k # "str" \/ toks[i + 1] # Colon
    THEN ParseError
    ELSE LET e == ParseValue(toks, i + 2)
         IN  IF ~e.ok \/ e.next > Len(toks) THEN ParseError
             ELSE IF toks[e.next] = Comma
                  THEN ParseMembers(toks, e.next + 1, With(acc, toks[i].v, e.v))
             ELSE IF toks[e.next] = RC
                  THEN Parsed(JObj(With(acc, toks[i].v, e.v)), e.next + 1)
             ELSE ParseError

JSONParse(toks) ==
    LET r == ParseValue(toks, 1)
    IN  IF r.ok /\ r.next = Len(toks) + 1 THEN r ELSE ParseError

\* Number(v), and the number v becomes in v * 1.2: an array converts as its
\* join(","), so an empty one is 0 and a one-element one is its element
RECURSIVE ToNum(_)
ToNum(v) ==
    CASE v.t = "number" -> v
      [] v.t = "null" -> JNum(0)
      [] v.t = "string" ->
           IF v.s = "" THEN JNum(0)
           ELSE IF v.s \in Numerals THEN JNum(NumeralValue(v.s))
           ELSE JNaN
      [] v.t = "array" /\ v.a = << >> -> JNum(0)
      [] v.t = "array" /\ Len(v.a) = 1 -> ToNum(v.a[1])
      [] OTHER -> JNaN

\* Math.max(s * 1.2, 0.5); NaN when s * 1.2 is NaN
ScaleSize(s) ==
    LET n == ToNum(s)
    IN  IF n.t = "NaN" THEN JNaN
        ELSE IF (n.n * 12) \div 10 >= 500 THEN JNum((n.n * 12) \div 10)
        ELSE JNum(500)

\* Number(c) alone: a coordinate that is no number stays NaN
Coordinate_KeepsNaN(c) == ToNum(c)

\* Number(c) || 0
Coordinate(c) ==
    LET n == ToNum(c)
    IN  IF n.t = "NaN" THEN JNum(0) ELSE n

\* obj.size.map(...) throws a TypeError unless obj.size is an array
HasSizeArray(obj) ==
    obj.t = "object" /\ Get(obj, "size").t = "array"

\* one entry of parsed.map(obj => ({...obj, size, x, z}))
Normalize(obj) ==
    LET size == Get(obj, "size").a
        scaled == [i \in 1..Len(size) |-> ScaleSize(size[i])]
    IN  JObj(With(With(With(obj.o, "size", JArr(scaled)),
                       "x", Coordinate(Get(obj, "x"))),
                  "z", Coordinate(Get(obj, "z"))))

\* the outcome of a step of a run: a value, or the message of the Error
\* thrown
Thrown(msg) == [ok |-> FALSE, msg |-> msg, objects |-> << >>]
Objects(list) == [ok |-> TRUE, msg |-> "", objects |-> list]

\* analyzeVideo from the text of the extraction on: match, parse, normalize
Reconstruct(text) ==
    LET m == Match(text)
        parsed == JSONParse(m)
        list == parsed.v.a
    IN  IF m = << >> THEN Thrown("Invalid AI Spatial Response")
        ELSE IF ~parsed.ok THEN Thrown("SyntaxError")
        ELSE IF \E i \in 1..Len(list) : ~HasSizeArray(list[i])
             THEN Thrown("TypeError")
        ELSE Objects([i \in 1..Len(list) |-> Normalize(list[i])])

\* ------------------------------------------------------------- the masses

\* the density table, in kg per cubic metre
Categories ==
    {"refrigerator", "bookshelf", "sofa", "table", "tv", "monitor", "chair", "lamp"}
DENSITIES ==
    [k \in Categories \cup {"default"} |->
        CASE k = "refrigerator" -> 300
          [] k = "bookshelf" -> 180
          [] k = "sofa" -> 100
          [] k = "table" -> 120
          [] k = "tv" -> 60
          [] k = "monitor" -> 50
          [] k = "chair" -> 70
          [] k = "lamp" -> 40
          [] OTHER -> 80]

\* DENSITIES is an object literal: a key it does not hold itself is looked
\* up in Object.prototype, whose properties are functions (or objects)
ObjectPrototype ==
    {"constructor", "toString", "valueOf", "hasOwnProperty", "isPrototypeOf",
     "propertyIsEnumerable", "toLocaleString", "__proto__"}
JFunction == JV("function", 0, "", << >>, << >>)

\* DENSITIES[key]; a key that is not a string is converted to one, which is
\* no key of the table for the values JSON gives
Lookup(key) ==
    IF key.t = "string" /\ key.s \in DOMAIN DENSITIES THEN JNum(DENSITIES[key.s])
    ELSE IF key.t = "string" /\ key.s \in ObjectPrototype THEN JFunction
    ELSE JUndefined

\* DENSITIES[obj.type] || DENSITIES.default (every entry is truthy)
Density(type) ==
    IF Lookup(type).t = "undefined" THEN JNum(DENSITIES["default"])
    ELSE Lookup(type)

\* a * b: NaN unless both are numbers
Times(a, b) ==
    IF a.t = "number" /\ b.t = "number" THEN JNum(a.n * b.n) ELSE JNaN

\* size[i] of an object, in tenths of a metre (the normalized sizes of the
\* inputs are multiples of 0.1)
SizeAt(obj, i) ==
    LET size == Get(obj, "size").a
    IN  IF i > Len(size) THEN JUndefined
        ELSE IF size[i].t = "number" THEN JNum(size[i].n \div 100)
        ELSE size[i]

\* the volume size[0] * size[1] * size[2], in thousandths of a cubic metre
Volume(obj) == Times(Times(SizeAt(obj, 1), SizeAt(obj, 2)), SizeAt(obj, 3))

\* mass = obj.size[0] * obj.size[1] * obj.size[2] * density, in grams
Mass(obj) == Times(Volume(obj), Density(Get(obj, "type")))

\* ---------------------------------------- spatial reconstruction: the run

\* What the POST to extract may come to: the fetch fails ("network"), the
\* body is not JSON ("notjson"), or it is a JSON object whose text and error
\* fields are as given (absent or empty: << >> and "").
Response(kind, text, error) == [kind |-> kind, text |-> text, error |-> error]
TextResponse(text) == Response("json", text, "")
ErrorResponse(msg) == Response("json", << >>, msg)

\* generateRoomData: the text of the response, or the Error thrown
GenerateRoomData(resp) ==
    CASE resp.kind = "network" -> [ok |-> FALSE, msg |-> "Failed to fetch", text |-> << >>]
      [] resp.kind = "notjson" -> [ok |-> FALSE, msg |-> "SyntaxError", text |-> << >>]
      [] OTHER ->
           IF resp.text # << >>
           THEN [ok |-> TRUE, msg |-> "", text |-> resp.text]
           ELSE [ok |-> FALSE,
                 msg |-> IF resp.error # "" THEN resp.error ELSE "Unknown AI error",
                 text |-> << >>]

\* ------------------------------------------------------ extraction inputs

\* the JSON text of one room object
ObjectText(type, size, color, x, z) ==
    <<LC, StrTok("type"), Colon, type, Comma,
      StrTok("size"), Colon>> \o size \o <<Comma,
      StrTok("color"), Colon, color, Comma,
      StrTok("x"), Colon, x, Comma, StrTok("z"), Colon, z, RC>>
ArrayText(a, b, c) == <<LB, a, Comma, b, Comma, c, RB>>

Table1 == ObjectText(StrTok("table"), ArrayText(NumTok("1"), NumTok("1"), NumTok("1")),
                     StrTok("#fff"), NumTok("1"), NumTok("2"))
Lamp == ObjectText(StrTok("lamp"), ArrayText(NumTok("0.3"), NumTok("2"), NumTok("0.5")),
                   StrTok("#000"), StrTok("abc"), NullTok)
NoSize == <<LC, StrTok("type"), Colon, StrTok("chair"), RC>>

\* the text of the spec's example: noise { } [ object ] trailing
ExampleText == <<Word("noise"), LC, RC, LB>> \o Table1 \o <<RB, Word("trailing")>>
TwoObjectsText == <<LB>> \o Lamp \o <<Comma>> \o Table1 \o <<RB>>
EmptyArrayText == <<Word("none"), LB, RB>>
NoArrayText == <<Word("no"), Word("objects"), RB, LC, RC>>
NotJSONText == <<LB, Word("table"), RB>>
TwoArraysText == <<LB, RB, Word("and"), LB, RB>>
NoSizeText == <<LB>> \o NoSize \o <<RB>>
BareObjectText == Table1
\* an object whose size holds a word, a numeral in a string and null
Shelf == ObjectText(StrTok("bookshelf"),
                    ArrayText(StrTok("wide"), StrTok("2"), NullTok),
                    StrTok("#333"), NumTok("0"), NumTok("-4"))
WordSizeText == <<LB>> \o Shelf \o <<RB>>
\* objects whose type is no category of the prompt
Gadget == ObjectText(StrTok("constructor"),
                     ArrayText(NumTok("1"), NumTok("1"), NumTok("1")),
                     StrTok("#0f0"), NumTok("2"), NumTok("1"))
Piano == ObjectText(StrTok("piano"),
                    ArrayText(NumTok("2"), NumTok("1"), NumTok("0.5")),
                    StrTok("#111"), NumTok("13"), NumTok("0"))
OtherTypesText == <<LB>> \o Gadget \o <<Comma>> \o Piano \o <<RB>>

\* free text around the array: none, words, braces
Noise == {<< >>, <<Word("noise"), LC, RC>>, <<Word("trailing")>>}
OneTable == <<LB>> \o Table1 \o <<RB>>
Embedded(pre, array, post) == pre \o array \o post
EmbeddedTexts ==
    {Embedded(pre, a, post) : pre \in Noise, post \in Noise,
                              a \in {OneTable, TwoObjectsText}}

Texts == {ExampleText, TwoObjectsText, EmptyArrayText, NoArrayText,
          NotJSONText, TwoArraysText, NoSizeText, BareObjectText,
          WordSizeText, OtherTypesText} \cup EmbeddedTexts

Responses ==
    {TextResponse(t) : t \in Texts}
    \cup {TextResponse(<< >>), ErrorResponse("quota exceeded"),
          Response("network", << >>, ""), Response("notjson", << >>, "")}

\* the responses that give the room the magnitude controls need
RoomResponses == {TextResponse(ExampleText)}

\* the responses of overlapping runs: two rooms, an empty room and two
\* failures of the extraction
RunResponses ==
    {TextResponse(ExampleText), TextResponse(TwoObjectsText),
     TextResponse(EmptyArrayText), TextResponse(NotJSONText),
     ErrorResponse("quota exceeded")}

\* what analyzeVideo makes of each response, from generateRoomData to the
\* normalized objects or the Error thrown
Outcome ==
    [resp \in Responses \cup RoomResponses \cup RunResponses |->
        LET g == GenerateRoomData(resp)
        IN  IF g.ok THEN Reconstruct(g.text) ELSE Thrown(g.msg)]

\* a run of analyzeVideo: loading the video and sampling its frames
\* ("video"), or waiting for the extraction ("extract")
Run(pc) == [pc |-> pc]

\* The run started last, when a run at phase pc takes a step that brings
\* the run started last to the phase next: it is that run, or an older one
\* at the same phase.
NewestAfter(pc, next) ==
    IF newest # pc
    THEN {newest}
    ELSE {next} \cup (IF CopiesIn(Run(pc), runs) > 1 THEN {newest} ELSE {})

\* the upload controls are rendered on the laptop page
UploadShown == mounted /\ ~unmounted /\ mode # "phone"

\* onChange of the file input: analyzeVideo(file) up to its first await
AnalyzeStart ==
    /\ UploadShown
    /\ BagCardinality(runs) < MaxRuns
    /\ loading' = TRUE
    /\ status' = StatusText("Extracting Spatial Data...")
    /\ runs' = runs (+) One(Run("video"))
    /\ newest' = "video"
    /\ UNCHANGED <<clientVars, loopVars, syncVars, detectedObjects, previewImage>>

\* the metadata and the three frames are there: preview, status, POST extract
VideoSampled ==
    /\ BagIn(Run("video"), runs)
    /\ runs' = (runs (-) One(Run("video"))) (+) One(Run("extract"))
    /\ previewImage' = TRUE
    /\ status' = StatusText("Mapping Room...")
    /\ newest' \in NewestAfter("video", "extract")
    /\ UNCHANGED <<clientVars, loopVars, syncVars, detectedObjects, loading>>

\* the sampling of the frames throws (a video of no finite duration makes
\* the assignment to video.currentTime throw a TypeError, once the preview
\* of the first frame is kept; a canvas without a 2d context throws before):
\* catch and finally of analyzeVideo
VideoFail ==
    /\ BagIn(Run("video"), runs)
    /\ runs' = runs (-) One(Run("video"))
    /\ previewImage' \in {previewImage, TRUE}
    /\ status' = StatusError("TypeError")
    /\ loading' = FALSE
    /\ newest' \in NewestAfter("video", "failed")
    /\ UNCHANGED <<clientVars, loopVars, syncVars, detectedObjects>>

\* mutant: a failed run clears the room
AnalyzeResult_ClearsOnError(resp) ==
    LET g == GenerateRoomData(resp)
        r == IF g.ok THEN Reconstruct(g.text) ELSE Thrown(g.msg)
    IN  IF r.ok
        THEN [objects |-> r.objects, status |-> StatusComplete(Len(r.objects))]
        ELSE [objects |-> << >>, status |-> StatusError(r.msg)]

\* what a run does with the response resp of the extraction: the new
\* RoomObject list and status
AnalyzeResult(resp) ==
    LET r == Outcome[resp]
    IN  IF r.ok
        THEN [objects |-> r.objects, status |-> StatusComplete(Len(r.objects))]
        ELSE [objects |-> detectedObjects, status |-> StatusError(r.msg)]

\* the extraction of a run answers: the rest of analyzeVideo
ExtractReturn(resp) ==
    /\ BagIn(Run("extract"), runs)
    /\ runs' = runs (-) One(Run("extract"))
    /\ LET result == AnalyzeResult(resp)
       IN  /\ detectedObjects' = result.objects
           /\ status' = result.status
           /\ newest' \in NewestAfter("extract",
                                      IF result.status.kind = "complete"
                                      THEN "ok" ELSE "failed")
    /\ loading' = FALSE
    /\ UNCHANGED <<clientVars, loopVars, syncVars, previewImage>>

\* ---------------------------------------------------------- specifications

\* a call of processFrame: one of its pending timers or the interval fires
Invocation == IntervalTick \/ \E t \in BagToSet(timers) : TimerFire(t)

\* The inference loop of a client, with the polls that change a sensor's
\* magnitude and the peer that changes the store.
NextLoop ==
    \/ Mount
    \/ \E t \in BagToSet(timers) : TimerFire(t)
    \/ IntervalTick
    \/ \E o \in Outcomes, d \in DetLists : DetectReturn(o, d)
    \/ CooldownElapsed
    \/ SyncTick
    \/ \E p \in BagToSet(polls) : SyncServe(p)
    \/ \E p \in BagToSet(polls) : SyncReturn(p)
    \/ \E v \in SliderVals : PeerUpdate(v)

SpecLoop == InitWith(Roles) /\ [][NextLoop]_vars

\* A sensor whose timers fire, whose capture source gives an image in the
\* end, and whose detect requests and cooldowns complete.
SpecLoopLive ==
    /\ InitWith({"phone"})
    /\ [][NextLoop]_vars
    /\ WF_vars(Mount)
    /\ WF_vars(\E t \in BagToSet(timers) : TimerFire(t))
    /\ WF_vars(\E o \in Outcomes, d \in DetLists : DetectReturn(o, d))
    /\ WF_vars(CooldownElapsed)

\* a step of the state poll: the tick, the backend's answer, the rest of sync
SyncStep ==
    \/ SyncTick
    \/ \E p \in BagToSet(polls) : SyncServe(p)
    \/ \E p \in BagToSet(polls) : SyncReturn(p)

\* The state synchronizer and the magnitude controls of a client, with the
\* reconstruction that brings the controls up and the peer device.
NextSync ==
    \/ Mount
    \/ SyncTick
    \/ \E p \in BagToSet(polls) : SyncServe(p)
    \/ \E p \in BagToSet(polls) : SyncReturn(p)
    \/ \E v \in SliderVals : SliderChange(v)
    \/ StopSimulation
    \/ \E v \in BagToSet(updates) : UpdateArrive(v)
    \/ \E v \in SliderVals : PeerUpdate(v)
    \/ \E d \in DetLists : PeerDetect(d)
    \/ AnalyzeStart
    \/ VideoSampled
    \/ \E r \in RoomResponses : ExtractReturn(r)

SpecSync == InitWith(Roles) /\ [][NextSync]_vars

\* A sensor and the store: its polls and the writes of the peer device.
NextSensor ==
    \/ Mount
    \/ SyncTick
    \/ \E p \in BagToSet(polls) : SyncServe(p)
    \/ \E p \in BagToSet(polls) : SyncReturn(p)
    \/ \E v \in SliderVals : PeerUpdate(v)
    \/ \E d \in DetLists : PeerDetect(d)

\* The page mounts, the 500 ms interval keeps firing and every poll is
\* answered and completes.
SpecSensorLive ==
    /\ InitWith({"phone"})
    /\ [][NextSensor]_vars
    /\ WF_vars(Mount)
    /\ WF_vars(SyncTick)
    /\ WF_vars(\E p \in BagToSet(polls) : SyncServe(p))
    /\ WF_vars(\E p \in BagToSet(polls) : SyncReturn(p))

\* A client and the store, with polls that fail.
NextPoll ==
    \/ NextSensor
    \/ \E p \in BagToSet(polls) : SyncFail(p)

SpecPoll == InitWith(Roles) /\ [][NextPoll]_vars

\* The inference loop and the polls of a client that is unmounted at some
\* point.
NextTeardown ==
    \/ NextLoop
    \/ Unmount

SpecTeardown == InitWith(Roles) /\ [][NextTeardown]_vars

\* The runs of analyzeVideo of a laptop client, which may overlap and fail
\* in either phase.
NextRun ==
    \/ Mount
    \/ AnalyzeStart
    \/ VideoSampled
    \/ VideoFail
    \/ \E r \in RunResponses : ExtractReturn(r)

SpecRun == InitWith({NoParam}) /\ [][NextRun]_vars

\* A sensor whose polls overlap, and a peer that only raises the magnitude.
NextOverlap ==
    \/ Mount
    \/ SyncTickUpTo(MaxOverlap)
    \/ \E p \in BagToSet(polls) : SyncServe(p)
    \/ \E p \in BagToSet(polls) : SyncReturn(p)
    \/ \E v \in RampVals : PeerRaise(v)

SpecOverlap == InitWith({"phone"}) /\ [][NextOverlap]_vars

\* The controls of a controller and the runs that show and hide them, over
\* a room and an empty room.
ControlResponses == {TextResponse(ExampleText), TextResponse(EmptyArrayText)}
NextControls ==
    \/ Mount
    \/ AnalyzeStart
    \/ VideoSampled
    \/ \E r \in ControlResponses : ExtractReturn(r)
    \/ \E v \in SliderVals : SliderChange(v)
    \/ StopSimulation
    \/ \E v \in BagToSet(updates) : UpdateArrive(v)

SpecControls == InitWith({NoParam}) /\ [][NextControls]_vars

\* The reconstruction pipeline of a client, over every extraction response.
NextRecon ==
    \/ Mount
    \/ AnalyzeStart
    \/ VideoSampled
    \/ \E r \in Responses : ExtractReturn(r)

SpecRecon == Init /\ [][NextRecon]_vars

\* A client launched with any of the parameters: its inference loop, its
\* polls and the peer device.
NextRole ==
    \/ NextLoop
    \/ \E d \in DetLists : PeerDetect(d)

SpecRole == InitWith(Params) /\ [][NextRole]_vars

\* Every way a magnitude changes: the polls and the controls of a client,
\* the reconstruction that brings the controls up, the peer device, and the
\* standalone simulator.
NextMagnitude ==
    \/ Mount
    \/ SyncTick
    \/ \E p \in BagToSet(polls) : SyncServe(p)
    \/ \E p \in BagToSet(polls) : SyncReturn(p)
    \/ \E v \in SliderVals : SliderChange(v)
    \/ StopSimulation
    \/ \E v \in BagToSet(updates) : UpdateArrive(v)
    \/ \E v \in SliderVals : PeerUpdate(v)
    \/ AnalyzeStart
    \/ VideoSampled
    \/ \E r \in RoomResponses : ExtractReturn(r)
    \/ SimReconstructed
    \/ \E v \in SimSliderVals : SimSliderChange(v)
    \/ SimStop

SpecMagnitude == InitWith(Roles) /\ [][NextMagnitude]_vars

\* The scene of a controller: the reconstruction that brings the controls
\* up, the magnitude controls and the frames of the floor.
NextScene ==
    \/ Mount
    \/ AnalyzeStart
    \/ VideoSampled
    \/ \E r \in RoomResponses : ExtractReturn(r)
    \/ \E v \in SliderVals : SliderChange(v)
    \/ StopSimulation
    \/ \E v \in BagToSet(updates) : UpdateArrive(v)
    \/ \E t \in Clock : Frame(t)

SpecScene == InitWith({NoParam}) /\ [][NextScene]_vars

\* the slider of the controller: min 0, max 9, step 0.1 (in tenths)
SliderMax == 90
SliderRange == {Str(m) : m \in 0..SliderMax}

\* The motion generator over every magnitude the slider can give: a
\* controller whose room is reconstructed, its slider at any step and the
\* store caught up, then the frames of the floor and the reset.
InitMotion ==
    /\ param = NoParam
    /\ unmounted = FALSE
    /\ unhandled = FALSE
    /\ mounted = TRUE
    /\ mode = "laptop"
    /\ webcamRef = FALSE
    /\ magnitude \in SliderRange \cup {Num(0)}
    /\ magRef = magnitude
    /\ detections = Arr(<< >>)
    /\ floor = Position(0, 0, FALSE)
    /\ sim = [magnitude |-> Num(0), room |-> FALSE]
    /\ isProcessing = FALSE
    /\ ivLock = FALSE
    /\ timers = One(Timer(FALSE, 500))
    /\ cycles = EmptyBag
    /\ lastSent = NothingSent
    /\ polls = EmptyBag
    /\ updates = EmptyBag
    /\ store = [magnitude |-> magnitude, detections |-> NoDetections]
    /\ lastPolled = NoPoll.magnitude
    /\ detectedObjects = AnalyzeResult(TextResponse(ExampleText)).objects
    /\ status = StatusComplete(1)
    /\ loading = FALSE
    /\ previewImage = TRUE
    /\ runs = EmptyBag
    /\ newest = "ok"

NextMotion ==
    \/ \E t \in Clock : Frame(t)
    \/ StopSimulation

SpecMotion == InitMotion /\ [][NextMotion]_vars

\* every operation of the client and of its environment
\* A controller with its room, whose slider is moved while the updates of
\* earlier moves are on the way; nothing else writes the store.
InitRoom == InitMotion /\ magnitude = Num(0)
NextWrites ==
    \/ \E v \in RampVals \cup SliderVals : SliderChangeUpTo(MaxOverlap, v)
    \/ \E v \in BagToSet(updates) : UpdateArrive(v)

SpecWrites == InitRoom /\ [][NextWrites]_vars

Next ==
    \/ NextLoop \/ NextSync \/ NextRecon \/ NextScene \/ NextMagnitude
    \/ NextPoll \/ NextTeardown \/ NextRun
    \/ NextOverlap \/ NextWrites \/ NextControls

Spec == Init /\ [][Next]_vars

\* ------------------------------------------------------------------ claims

\* C1: in every reachable state of a client at most one detect request is
\* in flight, whichever of the two triggers of processFrame fired.
C1_AtMostOneInFlight == InFlight <= 1

\* C2: a call of processFrame made while a cycle of the client is in flight
\* (between its lock acquisition and its finally block) is a no-op: it sends
\* no request, changes no state and schedules no further call.
C2_CallDuringCycleIsNoOp ==
    [][(cycles # EmptyBag /\ Invocation) =>
          /\ cycles' = cycles
          /\ isProcessing' = isProcessing
          /\ timers' \sqsubseteq timers]_vars

\* C3: a detect response 429 does not replace the detection set, and while
\* the 2 s cooldown of that cycle runs the client sends no detect request.
C3_CooldownBlocksRequests ==
    [][/\ (\E d \in DetLists : DetectReturn("429", d)) => detections' = detections
       /\ BagIn(Cycle("cooldown"), cycles) => InFlight' <= InFlight]_vars

\* C4: a state poll completed by a controller puts the polled detections in
\* the local detections (when the polled state carries any), leaves the
\* local magnitude as it is and sends no update_magnitude request.
C4_ControllerPoll ==
    [][\A p \in BagToSet(polls) :
          (SyncReturn(p) /\ p.mode # "phone") =>
              /\ Truthy(p.state.detections) => detections' = p.state.detections
              /\ magnitude' = magnitude
              /\ updates' = updates]_vars

\* a controller shows detections it polled while its magnitude is not the
\* store's
C4_Witness ==
    /\ mode = "laptop"
    /\ detections \in DetLists
    /\ detections = store.detections
    /\ magnitude = Str(90)
    /\ store.magnitude.v = 0

\* C5: once a sensor has completed a state poll, its local magnitude is the
\* magnitude the last completed poll carried.
C5_SensorMagnitudeIsPolled ==
    (mode = "phone" /\ lastPolled.t # "none") => magnitude = lastPolled

\* a sensor holds a magnitude of the peer's slider
C5_Witness ==
    /\ mode = "phone"
    /\ lastPolled = Str(90)
    /\ magnitude = Str(90)

\* C6: a sensor never has an update_magnitude request under way, no step of
\* a state poll writes the store or sends a request, and the magnitude of
\* the store changes only by a request of a controller.
C6_OnlyControllerWrites ==
    /\ [](mode = "phone" => updates = EmptyBag)
    /\ [][SyncStep => (store' = store /\ updates' = updates)]_vars
    /\ [][store'.magnitude # store.magnitude =>
             \/ \E v \in SliderVals : PeerUpdate(v)
             \/ mode # "phone" /\ \E v \in BagToSet(updates) : UpdateArrive(v)]_vars

\* a sensor has polled a store the peer's controller wrote
C6_Witness ==
    /\ mode = "phone"
    /\ lastPolled.t # "none"
    /\ lastPolled.v = 90
    /\ polls = EmptyBag

\* C7: every change of the magnitude on a controller (slider, reset to
\* zero) sends an update_magnitude request that carries the new magnitude.
C7_EveryChangeIsSent ==
    [][(mode # "phone" /\ magnitude' # magnitude) =>
          updates' = updates (+) One(magnitude')]_vars

\* C8: when the magnitude of the store stops changing, the local magnitude
\* of a sensor is eventually the store's and stays so.
C8_SensorConverges ==
    (<>[][store'.magnitude = store.magnitude]_vars) =>
        <>[](mode = "phone" /\ magnitude = store.magnitude)

\* a sensor has caught up with a magnitude the peer wrote
C8_Witness ==
    /\ mode = "phone"
    /\ store.magnitude = Str(90)
    /\ magnitude = store.magnitude
    /\ lastPolled = magnitude
    /\ polls = EmptyBag

\* the cases of a failed run: the service fails or gives no text, the text
\* holds no "[" with a "]" after it, the matched text is not JSON
ServiceFailure(resp) == resp.kind # "json" \/ resp.text = << >>
NoBracketedArray(text) ==
    ~\E i, j \in 1..Len(text) : i < j /\ text[i] = LB /\ text[j] = RB
Unparsable(text) == ~NoBracketedArray(text) /\ ~JSONParse(Match(text)).ok

\* C9: a run that fails ends with an error status, which is "Invalid AI
\* Spatial Response" when the text holds no array, and leaves the RoomObject
\* list as it was.
C9_FailedRunKeepsRoom ==
    [][\A r \in Responses :
          (ExtractReturn(r) /\ (ServiceFailure(r) \/ NoBracketedArray(r.text)
                                                  \/ Unparsable(r.text))) =>
              /\ status'.kind = "error"
              /\ detectedObjects' = detectedObjects
              /\ (~ServiceFailure(r) /\ NoBracketedArray(r.text)) =>
                     status' = StatusError("Invalid AI Spatial Response")]_vars

\* a run found no array and the room of an earlier run is still there
C9_Witness ==
    /\ status = StatusError("Invalid AI Spatial Response")
    /\ Len(detectedObjects) > 0
    /\ ~loading

\* C10: a run whose extraction text holds an empty array leaves the
\* RoomObject list as it was.
C10_EmptyArrayKeepsRoom ==
    [][(\E r \in Responses : ExtractReturn(r) /\ ~ServiceFailure(r)
                               /\ Match(r.text) = <<LB, RB>>) =>
          detectedObjects' = detectedObjects]_vars

\* C11: after any runs, over every extraction response, every size component
\* of every object of the RoomObject list is a number that is at least 0.5.
C11_SizesAtLeastHalf ==
    \A i \in 1..Len(detectedObjects) :
        LET size == Get(detectedObjects[i], "size").a
        IN  \A k \in 1..Len(size) : size[k].t = "number" /\ size[k].n >= 500

\* the objects the texts of EmbeddedTexts describe, normalized by hand:
\* 1 * 1.2 = 1.2; 0.3 * 1.2 = 0.36 < 0.5, 2 * 1.2 = 2.4, 0.5 * 1.2 = 0.6
TableObject ==
    JObj([k \in {"type", "size", "color", "x", "z"} |->
            CASE k = "type" -> JStr("table")
              [] k = "size" -> JArr(<<JNum(1200), JNum(1200), JNum(1200)>>)
              [] k = "color" -> JStr("#fff")
              [] k = "x" -> JNum(1000)
              [] k = "z" -> JNum(2000)])
LampSize == JArr(<<JNum(500), JNum(2400), JNum(600)>>)

\* C12: a run whose extraction text holds the array between free text
\* (braces before it, words after it) puts in the RoomObject list one object
\* for each entry, its size components max(1.2 s, 0.5) and its type, color
\* and numeric x, z as given; the entry of size [1,1,1] gives exactly one
\* object of size [1.2,1.2,1.2].
C12_EmbeddedArrayIsNormalized ==
    [][\A pre \in Noise, post \in Noise :
          /\ ExtractReturn(TextResponse(Embedded(pre, OneTable, post))) =>
                 detectedObjects' = <<TableObject>>
          /\ ExtractReturn(TextResponse(Embedded(pre, TwoObjectsText, post))) =>
                 /\ Len(detectedObjects') = 2
                 /\ Get(detectedObjects'[1], "size") = LampSize
                 /\ Get(detectedObjects'[1], "type") = JStr("lamp")
                 /\ Get(detectedObjects'[1], "color") = JStr("#000")
                 /\ detectedObjects'[2] = TableObject]_vars

\* the room of the example text is shown
C12_Witness ==
    /\ detectedObjects = <<TableObject>>
    /\ status = StatusComplete(1)
    /\ runs = EmptyBag

\* C13: at every tick where the magnitude is 0, the floor stays where it
\* is, whether the 0 came from the slider or from the reset button.
C13_ZeroMagnitudeHoldsFloor ==
    [][\A t \in Clock :
          (Frame(t) /\ magnitude.v = 0) =>
              (floor'.x = floor.x /\ floor'.z = floor.z)]_vars

\* C14: at magnitude 0 the motion generator gives the zero vector at every
\* time, so the first tick evaluated after the magnitude went from 9 to 0
\* puts the floor at zero displacement.
C14_ZeroMagnitudeZeroDisplacement ==
    [][\A t \in Clock :
          (Frame(t) /\ magnitude.v = 0 /\ ~IsZero(magnitude)) =>
              (floor'.x = 0 /\ floor'.z = 0 /\ floor'.driven)]_vars

\* a tick was evaluated at the slider's 0 and the floor is at the origin
C14_Witness ==
    /\ magnitude = Str(0)
    /\ floor = Position(0, 0, TRUE)
    /\ store.magnitude = Str(0)

\* C15: over the slider's steps, the amplitude at the magnitude of the
\* client is at least the amplitude at every lower step, and the frequency
\* is greater than at every lower step.
C15_AmplitudeAndFrequencyGrow ==
    \A m \in SliderRange :
        m.v < magnitude.v =>
            (Amp(m) <= Amp(magnitude) /\ Freq(m) < Freq(magnitude))

\* the floor is at the peak of the full amplitude
C15_Witness ==
    /\ magnitude = Str(SliderMax)
    /\ floor.driven
    /\ floor.x = 2 * Amp(magnitude)

\* obj with size[d] multiplied by k
ScaleDimension(obj, d, k) ==
    LET size == Get(obj, "size").a
    IN  JObj(With(obj.o, "size",
                  JArr([i \in 1..Len(size) |->
                          IF i = d /\ size[i].t = "number"
                          THEN JNum(size[i].n * k) ELSE size[i]])))

\* C16: the mass of every object of the RoomObject list is its volume times
\* the density of its type, the default density (80) for every type that is
\* no category of the table, and multiplying one size dimension by k
\* multiplies the mass by k.
C16_MassIsVolumeTimesDensity ==
    \A i \in 1..Len(detectedObjects) :
        LET obj == detectedObjects[i]
            type == Get(obj, "type")
        IN  /\ Mass(obj) =
                   Times(Volume(obj),
                         IF type.t = "string" /\ type.s \in Categories
                         THEN JNum(DENSITIES[type.s]) ELSE JNum(80))
            /\ \A d \in 1..3, k \in {2, 3} :
                   Mass(ScaleDimension(obj, d, k)) = Times(JNum(k), Mass(obj))

\* the role the launch parameter stands for: its value, "laptop" without one
LaunchRole == IF param = NoParam THEN "laptop" ELSE param

\* C17: the mode of a client is the one derived from the launch parameter
\* in every reachable state, and no step changes it.
C17_RoleIsFixed ==
    /\ [][mode' = mode]_vars
    /\ [](mounted => mode = LaunchRole)

\* C18 as stated: the parameter mode=sensor makes the client a sensor (it
\* has the camera and a completed poll sets its magnitude), and
\* mode=controller or no parameter makes it a controller (a completed poll
\* leaves its magnitude).
C18_SensorSelectsSensor ==
    /\ []((mounted /\ param = "sensor") => webcamRef)
    /\ [][\A p \in BagToSet(polls) :
             SyncReturn(p) =>
                 /\ param = "sensor" => magnitude' = p.state.magnitude
                 /\ param \in {"controller", NoParam} => magnitude' = magnitude]_vars

\* C18 amended: the parameter mode=phone makes the client a sensor (it has
\* the camera, only it sends detect requests, and a completed poll sets its
\* magnitude and leaves its detections); every other value and no
\* parameter make it a controller (a completed poll leaves its magnitude and
\* applies the detections the state carries).
C18_PhoneSelectsSensor ==
    /\ [](mounted => (webcamRef <=> param = "phone"))
    /\ [](cycles # EmptyBag => param = "phone")
    /\ [][\A p \in BagToSet(polls) :
             SyncReturn(p) =>
                 IF param = "phone"
                 THEN magnitude' = p.state.magnitude /\ detections' = detections
                 ELSE /\ magnitude' = magnitude
                      /\ Truthy(p.state.detections) =>
                             detections' = p.state.detections]_vars

\* a sensor has a detect request in flight and holds the polled magnitude
C18_Witness ==
    /\ param = "phone"
    /\ InFlight > 0
    /\ lastPolled = Str(90)
    /\ magnitude = Str(90)

\* C19: a 2xx detect response makes the detections of the client exactly
\* the detections of that response.
C19_DetectionsReplacedWholesale ==
    [][\A d \in DetLists : DetectReturn("ok", d) => detections' = d]_vars

\* the sensor shows the detections of a response and no cycle is active
C19_Witness ==
    /\ mode = "phone"
    /\ detections = Arr(<<Det2>>)
    /\ store.detections = detections
    /\ cycles = EmptyBag

\* C20: the magnitude of a client is within [0, 9] and the magnitude of the
\* standalone simulator within [0, 9.5] in every reachable state, and the
\* magnitude of a controller changes only by its slider or its reset.
C20_MagnitudeInRange ==
    /\ [](0 <= magnitude.v /\ magnitude.v <= SliderMax)
    /\ [](0 <= sim.magnitude.v /\ sim.magnitude.v <= SimSliderMax)
    /\ [][(mode # "phone" /\ magnitude' # magnitude) =>
             \/ \E v \in SliderVals : SliderChange(v)
             \/ StopSimulation]_vars

\* the simulator is at the top of its slider, and the controller, reset after
\* it sent 9, polls a store that holds the 9
C20_Witness ==
    /\ sim.magnitude = Num(SimSliderMax)
    /\ mode = "laptop"
    /\ magnitude = Num(0)
    /\ store.magnitude = Str(SliderMax)
    /\ polls # EmptyBag

\* C21: after any runs, over every extraction response, the x and the z of
\* every object of the RoomObject list are numbers between -12 and 12
\* (thousandths: -12000 to 12000).
CoordinateInRange(c) == c.t = "number" /\ c.n >= -12000 /\ c.n <= 12000
C21_CoordinatesInRange ==
    \A i \in 1..Len(detectedObjects) :
        /\ CoordinateInRange(Get(detectedObjects[i], "x"))
        /\ CoordinateInRange(Get(detectedObjects[i], "z"))

\* C30: a run that succeeds puts in the RoomObject list one object for each
\* entry of the parsed array, in the array's order, with the entry's type and
\* color; its x and z are numbers, Number of the entry's value, and 0 where
\* that is NaN: the lamp of x "abc" and z null is kept, at x 0 and z 0.
ParsedList == [t \in Texts |-> JSONParse(Match(t)).v.a]
C30_CoordinatesCoerced ==
    [][\A t \in Texts :
          (ExtractReturn(TextResponse(t)) /\ Reconstruct(t).ok) =>
              LET list == ParsedList[t]
              IN  /\ Len(detectedObjects') = Len(list)
                  /\ \A i \in 1..Len(list) :
                        /\ Get(detectedObjects'[i], "type") = Get(list[i], "type")
                        /\ Get(detectedObjects'[i], "color") = Get(list[i], "color")
                        /\ \A k \in {"x", "z"} :
                              LET given == ToNum(Get(list[i], k))
                                  kept == Get(detectedObjects'[i], k)
                              IN  /\ kept.t = "number"
                                  /\ given.t = "NaN" => kept = JNum(0)
                                  /\ given.t = "number" => kept = given
                        /\ Get(list[i], "x") = JStr("abc") =>
                              /\ Get(detectedObjects'[i], "type") = JStr("lamp")
                              /\ Get(detectedObjects'[i], "x") = JNum(0)
                              /\ Get(detectedObjects'[i], "z") = JNum(0)]_vars

\* the lamp whose x is "abc" is in the room, before the table
C30_Witness ==
    /\ Len(detectedObjects) = 2
    /\ Get(detectedObjects[1], "type") = JStr("lamp")
    /\ Get(detectedObjects[1], "x") = JNum(0)
    /\ Get(detectedObjects[2], "type") = JStr("table")
    /\ Get(detectedObjects[2], "x") = JNum(1000)

\* C22: in every reachable state a client has at most one pending
\* setTimeout(processFrame) continuation (the 300 ms re-arm or the 500 ms
\* readiness retry), the interval apart.
C22_AtMostOnePendingContinuation == BagCardinality(timers) <= 1

\* C24: a detect response of another status than 2xx and 429, and a failure
\* of the detect request, leave the detections as they are, release the lock
\* and schedule the next processFrame in 300 ms.
C24_FailedDetectKeepsLoop ==
    [][\A d \in DetLists :
          (DetectReturn("other", d) \/ DetectReturn("failed", d)) =>
              /\ detections' = detections
              /\ isProcessing' = FALSE
              /\ InFlight' = InFlight - 1
              /\ timers' = timers (+) One(Timer(FALSE, 300))]_vars

\* a cycle has ended with the lock free, the detections of an earlier cycle
\* shown and the next processFrame pending
C24_Witness ==
    /\ detections # Arr(<< >>)
    /\ cycles = EmptyBag
    /\ ~isProcessing
    /\ BagIn(Timer(FALSE, 300), timers)

\* C25: a processFrame that finds the capture source not ready (at mount,
\* from a timer or from the interval) sends no detect request, changes
\* neither the detections, the magnitude nor the lock flag, and leaves a
\* 500 ms retry of itself pending.
C25_NotReadyRetries ==
    [][(~webcamRef /\ (Mount \/ Invocation)) =>
          /\ cycles' = cycles
          /\ lastSent' = lastSent
          /\ detections' = detections
          /\ magnitude' = magnitude
          /\ isProcessing' = isProcessing
          /\ \E l \in BOOLEAN :
                /\ BagIn(Timer(l, 500), timers')
                /\ CopiesIn(Timer(l, 500), timers') >= CopiesIn(Timer(l, 500), timers)
          /\ \A t \in BagToSet(timers') : t.delay = 500 \/ BagIn(t, timers)]_vars

\* a client without capture source has its retry pending
C25_Witness ==
    /\ mounted
    /\ ~webcamRef
    /\ BagIn(Timer(FALSE, 500), timers)
    /\ cycles = EmptyBag
    /\ lastSent = NothingSent

\* C27: the rest of a poll made in the sensor role leaves the detections as
\* they are, and on a sensor the detections change only in the step that
\* handles a 2xx detect response.
C27_SensorIgnoresRemoteDetections ==
    /\ [][\A p \in BagToSet(polls) :
             (p.mode = "phone" /\ SyncReturn(p)) => detections' = detections]_vars
    /\ [][(mode = "phone" /\ detections' # detections) =>
             \E d \in DetLists : DetectReturn("ok", d)]_vars

\* a sensor that has completed a poll holds the answer of another one, whose
\* detections are not the ones it shows
C27_Witness ==
    /\ mode = "phone"
    /\ lastPolled.t # "none"
    /\ \E p \in BagToSet(polls) :
          /\ p.pc = "resp"
          /\ p.mode = "phone"
          /\ Truthy(p.state.detections)
          /\ p.state.detections # detections

CycleEnd ==
    \/ \E o \in Outcomes \ {"429"}, d \in DetLists : DetectReturn(o, d)
    \/ CooldownElapsed
    \/ /\ webcamRef
       /\ cycles' = cycles
       /\ \/ ~ivLock /\ IntervalTick
          \/ \E t \in BagToSet(timers) : ~t.lock /\ TimerFire(t)
C23_LoopRearms ==
    /\ [][Mount => TaskCount' = 1]_vars
    /\ [][CycleEnd =>
             /\ BagIn(Timer(FALSE, 300), timers')
             /\ BagCardinality(timers') >= BagCardinality(timers)
             /\ ~isProcessing']_vars
    /\ (mounted /\ InFlight = 0) ~> (InFlight > 0)

\* the sensor has a request in flight that a re-armed processFrame sent
\* after an earlier cycle brought detections
C23_Witness ==
    /\ mode = "phone"
    /\ detections # Arr(<< >>)
    /\ InFlight > 0
    /\ timers = EmptyBag

\* C28: once the page is unmounted no step is a call of processFrame (from
\* a timer or from the interval) and none starts a state poll.
C28_NoCallsAfterTeardown ==
    [][unmounted => ~(Invocation \/ SyncTick)]_vars

\* what holds of a failed poll: the state is kept and polls go on
FailedPollKeepsState ==
    /\ [][\A p \in BagToSet(polls) :
             SyncFail(p) => magnitude' = magnitude /\ detections' = detections]_vars
    /\ []((mounted /\ polls = EmptyBag) => ENABLED SyncTick)

\* C29: a poll that fails (the request or the parsing of its body) leaves
\* the magnitude and the detections as they are, the interval keeps starting
\* polls, and the failure raises nothing outside sync().
C29_FailedPollSwallowed ==
    /\ FailedPollKeepsState
    /\ [][\A p \in BagToSet(polls) : SyncFail(p) => unhandled' = unhandled]_vars

\* a run ends in this step; it was sampling the video, or waiting for the
\* extraction
RunEnds == BagCardinality(runs') < BagCardinality(runs)
EndsAt(pc) == CopiesIn(Run(pc), runs') < CopiesIn(Run(pc), runs)
\* what every run does: "Extracting" at its start, "Mapping" once the frames
\* are sampled, a count that is the length of the list it stored, and no
\* change of the list but by a run that ends with "Complete"
RunStatusSteps ==
    /\ AnalyzeStart => status' = StatusText("Extracting Spatial Data...")
    /\ VideoSampled => status' = StatusText("Mapping Room...")
    /\ RunEnds => status'.kind \in {"complete", "error"}
    /\ (RunEnds /\ status'.kind = "complete") =>
           EndsAt("extract") /\ status'.n = Len(detectedObjects')
    /\ detectedObjects' # detectedObjects =>
           RunEnds /\ status'.kind = "complete"

\* C31: a run writes "Extracting", then "Mapping", then "Complete" with the
\* count or "Error" with the message: it ends only after its "Mapping";
\* "Complete" comes with the list replaced, its count the length of the list,
\* and the list changes only in the step that ends a run.
C31_StatusPhases ==
    /\ [][RunStatusSteps]_vars
    /\ [][RunEnds => EndsAt("extract")]_vars

\* C31, amended: "Error" may also end a run that has not written "Mapping":
\* a run ends after its "Mapping", or with "Error" while it samples the video.
C31_StatusPhasesOrEarlyError ==
    /\ [][RunStatusSteps]_vars
    /\ [][RunEnds =>
             \/ EndsAt("extract")
             \/ EndsAt("video") /\ status'.kind = "error"]_vars

\* a run has ended with "Complete" and a later one with "Error" while it
\* was sampling, the room of the first still shown
C31_Witness ==
    /\ runs = EmptyBag
    /\ newest = "failed"
    /\ status = StatusError("TypeError")
    /\ Len(detectedObjects) = 2

\* C36: of two runs that overlap the one started last decides the RoomObject
\* list: once it has stored its objects, an older run that ends leaves the
\* list as it is.
C36_LastStartedRunWins ==
    [][(newest = "ok" /\ RunEnds) => detectedObjects' = detectedObjects]_vars

\* C37: loading is TRUE in every state with a run in progress and FALSE in
\* every state with none.
C37_LoadingIffRunning == loading <=> runs # EmptyBag

\* C32: in every reachable state isProcessing is TRUE exactly when a cycle
\* of the client is between its lock acquisition and its finally block.
C32_LockIffCycleActive == isProcessing <=> cycles # EmptyBag

\* C33: a client whose mode is not "phone" has no capture source, has sent no
\* detect request and has no cycle, and every call of processFrame it makes
\* ends at the readiness test: a 500 ms retry, the lock as it was.
C33_ControllerNeverDetects ==
    /\ []((mounted /\ mode # "phone") =>
             ~webcamRef /\ cycles = EmptyBag /\ lastSent = NothingSent)
    /\ [][(mounted /\ mode # "phone" /\ Invocation) =>
             /\ cycles' = cycles
             /\ lastSent' = lastSent
             /\ isProcessing' = isProcessing
             /\ \A t \in BagToSet(timers') : t.delay = 500]_vars

\* a controller on which the mount and the interval have called processFrame
C33_Witness ==
    /\ mounted
    /\ mode = "laptop"
    /\ BagCardinality(timers) >= 2
    /\ lastSent = NothingSent

\* C34: a sensor whose polls overlap never applies a magnitude older than
\* the one it applied last: with a peer that only raises the magnitude, the
\* magnitude a poll applies is not below the one of the poll completed
\* before it.
C34_PollsApplyInOrder ==
    [][\A p \in BagToSet(polls) :
          (p.mode = "phone" /\ lastPolled.t # "none" /\ SyncReturn(p)) =>
              p.state.magnitude.v >= lastPolled.v]_vars

\* C35: once every update_magnitude request of the controller has arrived,
\* the magnitude of the store is the value of the controller's last slider
\* move, which is its local magnitude.
C35_StoreHoldsLastSliderValue ==
    updates = EmptyBag => store.magnitude = magnitude

\* C38: whenever the magnitude of a controller is not zero its magnitude
\* controls are rendered.
C38_ControlsWhileShaking ==
    (mounted /\ mode # "phone" /\ magnitude.v # 0) => ControlsShown

====
